---- MODULE Spec2Model ----
(***************************************************************************)
(* A model of router/pkg/logging/logging.go (package logging).             *)
(*                                                                         *)
(* The package is glue around go.uber.org/zap and lumberjack: it parses a  *)
(* level name, builds one or two zapcore cores, tees them, and wraps them  *)
(* in a zap.Logger.  The model follows one process: it parses a level      *)
(* name (ZapLogLevelFromString), builds a logger with New, and then its    *)
(* goroutines make logging calls on the shared logger.  What zap does with *)
(* a call (level check, core selection, encoding, write, panic/exit hooks) *)
(* is modelled at the place logging.go asks for it, after zap 1.x's        *)
(* Logger.check, ioCore, multiCore and CheckedEntry.Write.  No lock is     *)
(* held across the cores of a call: a call is a step that checks, one      *)
(* step for each core's write, a step that reports write errors and a      *)
(* step that ends it, and the steps of concurrent calls interleave.        *)
(*                                                                         *)
(* Strings that the code inspects are sequences of Unicode code points.   *)
(* A second specification, SpecTime, runs the structured encoder's         *)
(* EncodeTime on timestamps, with float64 arithmetic modelled bit by bit.  *)
(***************************************************************************)
EXTENDS Integers, Sequences, FiniteSets, TLC

VARIABLES
  pc,           \* where the process is: start, parsed, aborted, built, exited, crashed,
                \* killed, clock, encoded
  logLevel,     \* the level name given to ZapLogLevelFromString
  lvl,          \* the level ZapLogLevelFromString returned
  err,          \* the error ZapLogLevelFromString returned (NoErr is nil)
  errIgnored,   \* the caller went on to New although err was not nil
  params,       \* the Params given to New
  hostnameOK,   \* environment: os.Hostname() succeeds
  fileOpenable, \* environment: Params.LogFileName can be opened or created
  logger,       \* what New returned (Nil before)
  stdout,       \* the lines written to os.Stdout
  file,         \* the lines written to the log file
  errorOutput,  \* the number of write-error reports zap made on its error output
  calls,        \* the logging calls made, in the order they began: what each has
                \* tried, what failed, how it ended ("pending" while under way)
  t,            \* SpecTime: the time.Time handed to EncodeTime, as [sec, nsec]
  millis        \* SpecTime: the integer EncodeTime appended, as [sec, ms]

vars == <<pc, logLevel, lvl, err, errIgnored, params, hostnameOK, fileOpenable,
          logger, stdout, file, errorOutput, calls, t, millis>>

\* Go's nil: no logger, no checked entry, no call yet.
Nil == [nil |-> TRUE]
\* A nil error.
NoErr == [msg |-> <<>>]

\* The number of logging calls a run makes, one after another or at once.
MaxCalls == 2

(***************************************************************************)
(* zapcore.Level values, as logging.go names them.                         *)
(***************************************************************************)
DebugLevel == -1
InfoLevel == 0
WarnLevel == 1
ErrorLevel == 2
PanicLevel == 4
FatalLevel == 5
\* zapcore.DPanicLevel lies between ErrorLevel and PanicLevel.
DPanicLevel == ErrorLevel + 1
\* The level returned beside the error for an unknown name.
UnknownLevel == -1

(***************************************************************************)
(* Strings as sequences of code points.                                    *)
(***************************************************************************)
DEBUG == <<68, 69, 66, 85, 71>>
INFO == <<73, 78, 70, 79>>
WARNING == <<87, 65, 82, 78, 73, 78, 71>>
ERROR == <<69, 82, 82, 79, 82>>
FATAL == <<70, 65, 84, 65, 76>>
PANIC == <<80, 65, 78, 73, 67>>

\* "unknown log level: "
UnknownPrefix ==
  <<117, 110, 107, 110, 111, 119, 110, 32, 108, 111, 103, 32,
    108, 101, 118, 101, 108, 58, 32>>

\* unicode.ToUpper on the code points the inputs are made of: a-z, and the
\* non-ASCII letters whose upper case is another letter (dotless i U+0131,
\* long s U+017F, micro sign U+00B5, y with diaeresis U+00FF); every other
\* code point used here is its own upper case.
ToUpperRune(r) ==
  IF r >= 97 /\ r <= 122 THEN r - 32
  ELSE IF r = 305 THEN 73
  ELSE IF r = 383 THEN 83
  ELSE IF r = 181 THEN 924
  ELSE IF r = 255 THEN 376
  ELSE r

\* strings.ToUpper: the upper case of every code point.
ToUpper(s) == [i \in 1..Len(s) |-> ToUpperRune(s[i])]

\* fmt.Errorf("unknown log level: %s", logLevel)
Errorf(arg) == [msg |-> UnknownPrefix \o arg]

\* A mutant: the name is compared as given, without upper-casing.
ZapLogLevelFromString_NoUpper(s) ==
  CASE s = DEBUG -> [level |-> DebugLevel, err |-> NoErr]
    [] s = INFO -> [level |-> InfoLevel, err |-> NoErr]
    [] s = WARNING -> [level |-> WarnLevel, err |-> NoErr]
    [] s = ERROR -> [level |-> ErrorLevel, err |-> NoErr]
    [] s = FATAL -> [level |-> FatalLevel, err |-> NoErr]
    [] s = PANIC -> [level |-> PanicLevel, err |-> NoErr]
    [] OTHER -> [level |-> UnknownLevel, err |-> Errorf(s)]

\* A mutant: the failure value is InfoLevel (Go's zero Level) instead of -1.
ZapLogLevelFromString_ZeroOnError(s) ==
  LET u == ToUpper(s) IN
  CASE u = DEBUG -> [level |-> DebugLevel, err |-> NoErr]
    [] u = INFO -> [level |-> InfoLevel, err |-> NoErr]
    [] u = WARNING -> [level |-> WarnLevel, err |-> NoErr]
    [] u = ERROR -> [level |-> ErrorLevel, err |-> NoErr]
    [] u = FATAL -> [level |-> FatalLevel, err |-> NoErr]
    [] u = PANIC -> [level |-> PanicLevel, err |-> NoErr]
    [] OTHER -> [level |-> InfoLevel, err |-> Errorf(s)]

ZapLogLevelFromString(s) ==
  LET u == ToUpper(s) IN
  CASE u = DEBUG -> [level |-> DebugLevel, err |-> NoErr]
    [] u = INFO -> [level |-> InfoLevel, err |-> NoErr]
    [] u = WARNING -> [level |-> WarnLevel, err |-> NoErr]
    [] u = ERROR -> [level |-> ErrorLevel, err |-> NoErr]
    [] u = FATAL -> [level |-> FatalLevel, err |-> NoErr]
    [] u = PANIC -> [level |-> PanicLevel, err |-> NoErr]
    [] OTHER -> [level |-> UnknownLevel, err |-> Errorf(s)]

(***************************************************************************)
(* The level names the process is given.                                   *)
(***************************************************************************)
LevelNames == {DEBUG, INFO, WARNING, ERROR, FATAL, PANIC}

\* The spellings of one upper-case letter: itself, its ASCII lower case, and
\* for I the dotless i (U+0131).
Spellings(c) == {c, c + 32} \cup (IF c = 73 THEN {305} ELSE {})

RECURSIVE SpelledLike(_)
SpelledLike(name) ==
  IF name = <<>> THEN {<<>>}
  ELSE {<<c>> \o rest : c \in Spellings(Head(name)), rest \in SpelledLike(Tail(name))}

Prefixes(name) == {SubSeq(name, 1, n) : n \in 0..(Len(name) - 1)}

\* The string with its ASCII capitals in lower case.
AsciiLower(s) == [i \in 1..Len(s) |-> IF s[i] >= 65 /\ s[i] <= 90 THEN s[i] + 32 ELSE s[i]]

\* Strings that are no level name: the proper prefixes of the names ("",
\* "WARN", ...), in both cases; names with a character added or replaced;
\* names of levels the function does not know.
OtherStrings ==
  LET pre == UNION {Prefixes(n) : n \in LevelNames}
      more == {
        INFO \o <<32>>, <<32>> \o INFO, DEBUG \o <<71>>, ERROR \o <<10>>,
        <<73, 78, 70, 48>>,                \* "INF0"
        <<304, 78, 70, 79>>,               \* "INFO" with U+0130, capital I with dot
        <<87, 65, 82, 78, 304, 78, 71>>,   \* "WARNING" with U+0130
        <<68, 80, 65, 78, 73, 67>>,        \* "DPANIC"
        <<84, 82, 65, 67, 69>>,            \* "TRACE"
        <<79, 70, 70>>,                    \* "OFF"
        <<45, 49>>,                        \* "-1"
        <<383, 181, 255>> }                \* non-ASCII letters with an upper case
  IN pre \cup {AsciiLower(s) : s \in pre} \cup more \cup {AsciiLower(s) : s \in more}

Inputs == (UNION {SpelledLike(n) : n \in LevelNames}) \cup OtherStrings

(***************************************************************************)
(* Encoders, cores and the logger.                                         *)
(***************************************************************************)
\* zap.String / zap.Int: one structured field.
Field(key, val) == [key |-> key, val |-> val]

requestIDField == "reqId"

WithRequestID(reqID) == Field(requestIDField, reqID)

\* os.Getpid()
Getpid == 4242

\* os.Hostname(): the host name, or an error.
Hostname == IF hostnameOK THEN [host |-> "router-1", err |-> NoErr]
            ELSE [host |-> "", err |-> [msg |-> <<104, 111, 115, 116>>]]

\* ZapJsonEncoder and zapConsoleEncoder differ in how they render a record; an
\* encoder is modelled by its kind and the context fields added to it.
ZapJsonEncoder == [kind |-> "json", ctx |-> <<>>]

zapConsoleEncoder == [kind |-> "console", ctx |-> <<>>]

\* zapcore.NewCore(encoder, syncer, level)
newZapCore(syncer, prettyLogging, level) ==
  [enc |-> IF prettyLogging THEN zapConsoleEncoder ELSE ZapJsonEncoder,
   out |-> syncer, level |-> level]

\* zapcore.NewTee: the cores, in order (a tee of one core is that core).
NewTee(cores) == cores

\* Logger.With: every core's encoder gets the fields; the logger is a copy.
With(log, fields) ==
  [log EXCEPT !.core = [i \in 1..Len(log.core) |->
     [log.core[i] EXCEPT !.enc.ctx = log.core[i].enc.ctx \o fields]]]

\* A mutant: a failed host name lookup leaves the host name empty.
attachBaseFields_NoFallback(log) ==
  With(log, <<Field("hostname", Hostname.host), Field("pid", Getpid)>>)

attachBaseFields(log) ==
  LET host == IF Hostname.err # NoErr THEN "unknown" ELSE Hostname.host
  IN With(log, <<Field("hostname", host), Field("pid", Getpid)>>)

\* A mutant: the base fields are attached in pretty mode too.
newZapLogger_AlwaysBase(core, prettyLogging, debug) ==
  attachBaseFields([core |-> core, addCaller |-> debug, addStack |-> ErrorLevel])

\* A mutant: call-site capture is always on.
newZapLogger_AlwaysCaller(core, prettyLogging, debug) ==
  LET log == [core |-> core, addCaller |-> TRUE, addStack |-> ErrorLevel]
  IN IF ~prettyLogging THEN attachBaseFields(log) ELSE log

\* zap.New(core, [AddCaller()], AddStacktrace(ErrorLevel)), then the base fields.
newZapLogger(core, prettyLogging, debug) ==
  LET log == [core |-> core, addCaller |-> debug, addStack |-> ErrorLevel]
  IN IF ~prettyLogging THEN attachBaseFields(log) ELSE log

\* A mutant: the file core gets the pretty flag, as the console core does.
New_FilePretty(p) ==
  LET console == <<newZapCore("stdout", p.PrettyLogging, p.Level)>>
      cores == IF p.EnableFileLogging
               THEN console \o <<newZapCore("file", p.PrettyLogging, p.Level)>>
               ELSE console
  IN newZapLogger(NewTee(cores), p.PrettyLogging, p.Debug)

\* New never fails and never touches the file: lumberjack opens it on the
\* first write.
New(p) ==
  LET console == <<newZapCore("stdout", p.PrettyLogging, p.Level)>>
      cores == IF p.EnableFileLogging
               THEN console \o <<newZapCore("file", FALSE, p.Level)>>
               ELSE console
  IN newZapLogger(NewTee(cores), p.PrettyLogging, p.Debug)

(***************************************************************************)
(* A logging call: Logger.Debug, Info, Warn, Error, DPanic, Panic, Fatal.  *)
(***************************************************************************)
RecordLevels ==
  {DebugLevel, InfoLevel, WarnLevel, ErrorLevel, DPanicLevel, PanicLevel, FatalLevel}

\* The fields a caller attaches to one call.
CallFields == {<<>>, <<WithRequestID("abc-123")>>}

\* A mutant: a core admits only the records strictly above its level.
CoreEnabled_Strict(core, l) == l > core.level

\* The core's LevelEnabler, the level given to zapcore.NewCore: l >= level.
CoreEnabled(core, l) == l >= core.level

\* multiCore.Enabled: some core admits the level.
TeeEnabled(cores, l) == \E i \in 1..Len(cores) : CoreEnabled(cores[i], l)

\* multiCore.Check: every core that admits the level adds itself to the entry.
TeeCheck(cores, l) == SelectSeq(cores, LAMBDA c : CoreEnabled(c, l))

\* What follows the write: zap panics after a Panic record and exits after a
\* Fatal one (DPanic panics only in development mode, which New does not set).
AfterWrite(l) == CASE l = PanicLevel -> "panic" [] l = FatalLevel -> "exit" [] OTHER -> "return"

\* Logger.check: Nil when the call writes nothing and has nothing to do after.
check(log, l) ==
  IF l < DPanicLevel /\ ~TeeEnabled(log.core, l) THEN Nil
  ELSE LET cores == TeeCheck(log.core, l)
       IN IF cores = <<>>
          THEN IF AfterWrite(l) = "return" THEN Nil
               ELSE [cores |-> <<>>, after |-> AfterWrite(l), caller |-> FALSE, stack |-> FALSE]
          ELSE [cores |-> cores, after |-> AfterWrite(l),
                caller |-> log.addCaller, stack |-> l >= log.addStack]

\* Encoder.EncodeEntry: the line one core writes for an entry.
EncodeEntry(enc, ent, fields) ==
  [kind |-> enc.kind, time |-> ent.time, level |-> ent.level, msg |-> ent.msg,
   caller |-> ent.caller, stack |-> ent.stack, fields |-> enc.ctx \o fields]

\* The keys of a written line: the encoder config's LevelKey, TimeKey ("time"),
\* MessageKey, CallerKey when the call site was captured, StacktraceKey when
\* a stack was, and the keys of the fields.
Keys(line) ==
  {"level", "time", "msg"}
    \cup (IF line.caller THEN {"caller"} ELSE {})
    \cup (IF line.stack THEN {"stacktrace"} ELSE {})
    \cup {line.fields[i].key : i \in 1..Len(line.fields)}

\* CheckedEntry.Write: the cores of the entry are written in turn, and the
\* errors are collected (multierr.Append): after core i comes core i + 1,
\* whether or not the write succeeded.
AfterCore(cores, i, ok) == i + 1

Outs(cores) == {cores[i].out : i \in 1..Len(cores)}

(***************************************************************************)
(* The process.                                                            *)
(***************************************************************************)
NoParams == [PrettyLogging |-> FALSE, Debug |-> FALSE, Level |-> InfoLevel,
             EnableFileLogging |-> FALSE]

NoTime == [sec |-> 0, nsec |-> 0]

Init ==
  /\ pc = "start"
  /\ logLevel \in Inputs
  /\ lvl = InfoLevel
  /\ err = NoErr
  /\ errIgnored = FALSE
  /\ params = NoParams
  /\ hostnameOK = TRUE
  /\ fileOpenable = TRUE
  /\ logger = Nil
  /\ stdout = <<>>
  /\ file = <<>>
  /\ errorOutput = 0
  /\ calls = <<>>
  /\ t = NoTime
  /\ millis = Nil

\* level, err := ZapLogLevelFromString(logLevel)
Parse ==
  /\ pc = "start"
  /\ LET r == ZapLogLevelFromString(logLevel)
     IN /\ lvl' = r.level
        /\ err' = r.err
  /\ pc' = "parsed"
  /\ UNCHANGED <<logLevel, errIgnored, params, hostnameOK, fileOpenable, logger,
                 stdout, file, errorOutput, calls, t, millis>>

\* The caller propagates the failure: no logger is built.
Abort ==
  /\ pc = "parsed"
  /\ err # NoErr
  /\ pc' = "aborted"
  /\ UNCHANGED <<logLevel, lvl, err, errIgnored, params, hostnameOK, fileOpenable,
                 logger, stdout, file, errorOutput, calls, t, millis>>

\* logger := New(Params{..., Level: level}), whether or not err was nil.  The
\* environment is what it is when New runs: whether os.Hostname() succeeds
\* (asked only without PrettyLogging) and whether the log file can be opened
\* (it exists only with EnableFileLogging).
Build ==
  /\ pc = "parsed"
  /\ \E pretty \in BOOLEAN, debug \in BOOLEAN, enableFile \in BOOLEAN, level \in {lvl} :
       LET p == [PrettyLogging |-> pretty, Debug |-> debug, Level |-> level,
                 EnableFileLogging |-> enableFile]
       IN /\ hostnameOK' \in (IF pretty THEN {TRUE} ELSE BOOLEAN)
          /\ fileOpenable' \in (IF enableFile THEN BOOLEAN ELSE {TRUE})
          /\ params' = p
          /\ logger' = New(p)'
  /\ errIgnored' = (err # NoErr)
  /\ logLevel' = <<>>
  /\ err' = NoErr
  /\ pc' = "built"
  /\ UNCHANGED <<lvl, stdout, file, errorOutput, calls, t, millis>>

\* A goroutine begins a logging call at level l with its fields: Logger.check
\* decides what the call will write.  A call with nothing to write and
\* nothing to do after returns at once.
Call ==
  /\ pc = "built"
  /\ Len(calls) < MaxCalls
  /\ \E l \in RecordLevels, fields \in CallFields :
       LET ce == check(logger, l)
       IN calls' = Append(calls,
                     [time |-> Len(calls) + 1, level |-> l, fields |-> fields,
                      next |-> 1, tried |-> {}, failed |-> {}, reported |-> FALSE,
                      outcome |-> IF ce = Nil THEN "return" ELSE "pending"])
  /\ UNCHANGED <<pc, logLevel, lvl, err, errIgnored, params, hostnameOK, fileOpenable,
                 logger, stdout, file, errorOutput, t, millis>>

\* What a Write on a writer may do: write the line, return an error, or, on
\* os.Stdout and os.Stderr only, end the process: a write to a closed pipe
\* (EPIPE) on file descriptor 1 or 2 raises SIGPIPE, which kills a process
\* that does not handle the signal; where the program handles it the write
\* returns the error.  The log file's writer returns an error whenever the
\* file cannot be opened.
WriteResults(out) ==
  IF out = "file"
  THEN (IF fileOpenable THEN {"ok", "error"} ELSE {"error"})
  ELSE {"ok", "error", "sigpipe"}

\* A call under way writes its next core: the entry is encoded and handed to
\* the core's writer; a failed write leaves no line, and the call goes on to
\* the next core unless the process was killed.  The writers serialise
\* single writes only, so the writes of other calls may come between two
\* writes of this one.
Write ==
  /\ pc = "built"
  /\ \E i \in 1..Len(calls) :
       LET c == calls[i]
           ce == check(logger, c.level)
       IN /\ c.outcome = "pending"
          /\ c.next <= Len(ce.cores)
          /\ LET core == ce.cores[c.next]
                 ent == [time |-> c.time, level |-> c.level, msg |-> "started",
                         caller |-> ce.caller, stack |-> ce.stack]
                 line == EncodeEntry(core.enc, ent, c.fields)
             IN \E res \in WriteResults(core.out) :
                  LET ok == res = "ok" IN
                  /\ stdout' = IF ok /\ core.out = "stdout" THEN Append(stdout, line)
                                ELSE stdout
                  /\ file' = IF ok /\ core.out = "file" THEN Append(file, line) ELSE file
                  /\ calls' = [calls EXCEPT ![i] =
                                 [c EXCEPT !.next = IF res = "sigpipe" THEN c.next
                                                    ELSE AfterCore(ce.cores, c.next, ok),
                                           !.tried = c.tried \cup {core.out},
                                           !.failed = IF ok THEN c.failed
                                                      ELSE c.failed \cup {core.out}]]
                  /\ pc' = IF res = "sigpipe" THEN "killed" ELSE "built"
  /\ UNCHANGED <<logLevel, lvl, err, errIgnored, params, hostnameOK, fileOpenable,
                 logger, errorOutput, t, millis>>

\* A call that has written its cores and collected a write error reports it
\* on zap's error output, os.Stderr (the writer is locked for the one write
\* only): the report is written, or its write fails and zap drops that
\* error, or the process is killed as on os.Stdout.  The call has not ended
\* yet: the steps of other goroutines may follow the report before the
\* call's hook runs.
Report ==
  /\ pc = "built"
  /\ \E i \in 1..Len(calls), res \in WriteResults("stderr") :
       LET c == calls[i]
           ce == check(logger, c.level)
       IN /\ c.outcome = "pending"
          /\ c.next > Len(ce.cores)
          /\ c.failed # {}
          /\ ~c.reported
          /\ errorOutput' = errorOutput + (IF res = "ok" THEN 1 ELSE 0)
          /\ calls' = [calls EXCEPT ![i] = [c EXCEPT !.reported = res # "sigpipe"]]
          /\ pc' = IF res = "sigpipe" THEN "killed" ELSE "built"
  /\ UNCHANGED <<logLevel, lvl, err, errIgnored, params, hostnameOK, fileOpenable,
                 logger, stdout, file, t, millis>>

\* A call that has written its cores, and reported the write errors if there
\* were any, ends: zap panics after a Panic record (a panic the goroutine
\* does not recover ends the process) and exits the process after a Fatal
\* one; otherwise the call returns.  The calls of other goroutines under way
\* when the process ends are cut where they are.
End ==
  /\ pc = "built"
  /\ \E i \in 1..Len(calls) :
       LET c == calls[i]
           ce == check(logger, c.level)
       IN /\ c.outcome = "pending"
          /\ c.next > Len(ce.cores)
          /\ c.failed # {} => c.reported
          /\ calls' = [calls EXCEPT ![i] = [c EXCEPT !.outcome = ce.after]]
          /\ pc' \in (CASE ce.after = "exit" -> {"exited"}
                        [] ce.after = "panic" -> {"built", "crashed"}
                        [] OTHER -> {"built"})
  /\ UNCHANGED <<logLevel, lvl, err, errIgnored, params, hostnameOK, fileOpenable,
                 logger, stdout, file, errorOutput, t, millis>>

Next == Parse \/ Abort \/ Build \/ Call \/ Write \/ Report \/ End

Spec == Init /\ [][Next]_vars

(***************************************************************************)
(* Properties.                                                             *)
(***************************************************************************)
\* A logger has been built; the process may have ended since.
Built == pc \in {"built", "exited", "crashed", "killed"}

\* The lines of a sink, and all lines written.
Log(sink) == IF sink = "stdout" THEN stdout ELSE file

Lines == {stdout[i] : i \in 1..Len(stdout)} \cup {file[i] : i \in 1..Len(file)}

\* The calls made, and those that have ended (returned, panicked or exited).
Calls == {calls[i] : i \in 1..Len(calls)}

Ended == {c \in Calls : c.outcome # "pending"}

\* The record of call c is in the sink.
Emitted(sink, c) == \E i \in 1..Len(Log(sink)) : Log(sink)[i].time = c.time

FieldVal(line, key) == {line.fields[i].val : i \in {j \in 1..Len(line.fields) : line.fields[j].key = key}}

\* s is name with each letter in upper or lower case (ASCII).
IsCaseVariant(s, name) ==
  /\ Len(s) = Len(name)
  /\ \A i \in 1..Len(name) : s[i] \in {name[i], name[i] + 32}

\* s is name with each letter in upper or lower case, I also as dotless i.
IsSpelledLike(s, name) ==
  /\ Len(s) = Len(name)
  /\ \A i \in 1..Len(name) : s[i] \in Spellings(name[i])

\* The error's message ends with the input, unchanged.
CarriesInput ==
  /\ err # NoErr
  /\ Len(err.msg) >= Len(logLevel)
  /\ SubSeq(err.msg, Len(err.msg) - Len(logLevel) + 1, Len(err.msg)) = logLevel
  /\ SubSeq(err.msg, 1, Len(err.msg) - Len(logLevel)) = UnknownPrefix

DistinctSeverities ==
  \A a \in LevelNames, b \in LevelNames :
    a # b => ZapLogLevelFromString(a).level # ZapLogLevelFromString(b).level

\* C1 as stated: every ASCII letter-case variant of a level name returns that
\* name's severity with a nil error, distinct names return distinct
\* severities, and every other string returns an error carrying the input.
C1_AsStated ==
  pc = "parsed" =>
    /\ DistinctSeverities
    /\ \A n \in LevelNames :
         IsCaseVariant(logLevel, n) =>
           err = NoErr /\ lvl = ZapLogLevelFromString(n).level
           /\ ZapLogLevelFromString(n).err = NoErr
    /\ (~\E n \in LevelNames : IsCaseVariant(logLevel, n)) => CarriesInput

\* C1, amended: every letter-case variant of a level name, a dotless i
\* (U+0131) for an I included, returns that name's severity with a nil error;
\* distinct names return distinct severities; every other string returns an
\* error whose message carries the input unchanged.
C1_CaseInsensitive ==
  pc = "parsed" =>
    /\ DistinctSeverities
    /\ \A n \in LevelNames :
         IsSpelledLike(logLevel, n) =>
           err = NoErr /\ lvl = ZapLogLevelFromString(n).level
           /\ ZapLogLevelFromString(n).err = NoErr
    /\ (~\E n \in LevelNames : IsSpelledLike(logLevel, n)) => CarriesInput

\* "wArNing" spelled with a dotless i is parsed as WARNING.
C1_Witness ==
  /\ pc = "parsed"
  /\ logLevel = <<119, 65, 114, 78, 305, 110, 71>>
  /\ err = NoErr
  /\ lvl = WarnLevel

\* C2: without file logging the logger has one sink, stdout; with it, two
\* sinks of the same minimum severity Params.Level, the file's encoder being
\* the structured one whatever PrettyLogging is, the console's being the
\* console one iff PrettyLogging. By the time its call ends, a record at or
\* above Params.Level has gone to every sink, and it is in each sink whose
\* write did not fail, whatever other calls ran beside it.
C2_SinkComposition ==
  Built =>
    LET cores == logger.core IN
    /\ Len(cores) = (IF params.EnableFileLogging THEN 2 ELSE 1)
    /\ cores[1].out = "stdout"
    /\ cores[1].enc.kind = (IF params.PrettyLogging THEN "console" ELSE "json")
    /\ \A i \in 1..Len(cores) : cores[i].level = params.Level
    /\ params.EnableFileLogging => cores[2].out = "file" /\ cores[2].enc.kind = "json"
    /\ ~params.EnableFileLogging => file = <<>>
    /\ \A i \in 1..Len(file) : file[i].kind = "json"
    /\ \A i \in 1..Len(stdout) :
         stdout[i].kind = (IF params.PrettyLogging THEN "console" ELSE "json")
    /\ \A c \in Ended :
         c.level >= params.Level =>
           c.tried = (IF params.EnableFileLogging THEN {"stdout", "file"} ELSE {"stdout"})
    /\ \A c \in Calls : \A sink \in c.tried \ c.failed : Emitted(sink, c)

\* A pretty logger with file logging wrote one record to both sinks: a console
\* line on stdout, a structured line in the file.
C2_Witness ==
  /\ Built
  /\ params.PrettyLogging /\ params.EnableFileLogging
  /\ \E c \in Ended :
       /\ c.level >= params.Level /\ c.failed = {}
       /\ Emitted("stdout", c) /\ Emitted("file", c)
  /\ stdout[1].kind = "console" /\ file[1].kind = "json"

\* The severity ZapLogLevelFromString gives each level name.
LevelOf == [n \in LevelNames |-> ZapLogLevelFromString(n).level]

\* The position of a name in an order of the names.
Rank(order, name) == CHOOSE i \in 1..Len(order) : order[i] = name

\* The order the data model gives, and the order of the levels' values.
StatedOrder == <<DEBUG, INFO, WARNING, ERROR, FATAL, PANIC>>

ValueOrder == <<DEBUG, INFO, WARNING, ERROR, PANIC, FATAL>>

\* With minimum severity m and a record of severity s (both by name): a
\* sink holds the record only if s is at or after m in the order, and once
\* the call has ended every sink has been written iff s is at or after m,
\* and holds the record iff moreover its write did not fail.
FilteredBy(order) ==
  Built =>
    \A c \in Calls, m \in LevelNames, s \in LevelNames :
      (logger.core[1].level = LevelOf[m] /\ c.level = LevelOf[s]) =>
        \A sink \in Outs(logger.core) :
          /\ Emitted(sink, c) => Rank(order, s) >= Rank(order, m)
          /\ c \in Ended =>
               /\ sink \in c.tried <=> Rank(order, s) >= Rank(order, m)
               /\ Emitted(sink, c) <=>
                    (Rank(order, s) >= Rank(order, m) /\ sink \notin c.failed)

\* C3 as stated: filtering follows DEBUG < INFO < WARNING < ERROR < FATAL < PANIC.
C3_AsStated == FilteredBy(StatedOrder)

\* C3, amended: filtering follows DEBUG < INFO < WARNING < ERROR < PANIC <
\* FATAL: a logger whose minimum is PANIC emits FATAL records, and one whose
\* minimum is FATAL emits no PANIC record.
C3_FilterOrder == FilteredBy(ValueOrder)

\* A logger whose minimum is FATAL was given a PANIC record and wrote nothing.
C3_Witness ==
  /\ Built
  /\ params.Level = LevelOf[FATAL]
  /\ \E c \in Ended : c.level = LevelOf[PANIC] /\ c.tried = {}
  /\ stdout = <<>> /\ file = <<>>

\* C4: without PrettyLogging every line written, to either sink, carries
\* "hostname" (the OS host name, or "unknown" when the lookup fails) and
\* "pid"; with PrettyLogging a line carries only the fields of its call.
\* New returns a logger whether or not the lookup fails.
C4_BaseFields ==
  Built =>
    /\ logger # Nil
    /\ ~params.PrettyLogging =>
         \A line \in Lines :
           /\ FieldVal(line, "hostname") = {IF hostnameOK THEN Hostname.host ELSE "unknown"}
           /\ FieldVal(line, "pid") = {Getpid}
    /\ params.PrettyLogging =>
         \A line \in Lines :
           /\ line.fields \in CallFields
           /\ FieldVal(line, "hostname") = {} /\ FieldVal(line, "pid") = {}

\* The host name lookup failed and the written line says "unknown".
C4_Witness ==
  /\ Built /\ ~params.PrettyLogging /\ ~hostnameOK
  /\ Len(stdout) >= 1
  /\ FieldVal(stdout[1], "hostname") = {"unknown"}
  /\ FieldVal(stdout[1], "pid") = {Getpid}

\* C5: a written line carries the call site iff Params.Debug, and a stack
\* trace iff its severity is ERROR or above, whatever the other parameters.
C5_CallerAndStack ==
  Built =>
    \A line \in Lines :
      /\ line.caller <=> params.Debug
      /\ ("caller" \in Keys(line)) <=> params.Debug
      /\ line.stack <=> line.level \in {ErrorLevel, DPanicLevel, PanicLevel, FatalLevel}
      /\ ("stacktrace" \in Keys(line)) <=> line.level \notin {DebugLevel, InfoLevel, WarnLevel}

\* A debug logger wrote an ERROR line with call site and stack, and a line
\* below ERROR with call site and no stack.
C5_Witness ==
  /\ Built /\ params.Debug
  /\ Len(stdout) >= 2
  /\ stdout[1].level = ErrorLevel /\ stdout[1].caller /\ stdout[1].stack
  /\ stdout[2].level = WarnLevel /\ stdout[2].caller /\ ~stdout[2].stack

\* C6 as stated: with file logging on and a log file that cannot be opened
\* or created, New fails: it hands back no logger.
C6_AsStated ==
  (Built /\ params.EnableFileLogging /\ ~fileOpenable) => logger = Nil

\* C7 as stated: with both sinks, a failed write on one sink, whichever is
\* tried first, keeps the record from no other sink: the call goes on to the
\* other sink, and a call that has ended has written both; and the failure
\* is not raised in the caller: the call ends as it would have without the
\* failure (it returns; a Panic record panics and a Fatal one exits, failure
\* or not) and the process is not killed.
C7_AsStated ==
  (Built /\ params.EnableFileLogging) =>
    /\ \A c \in Ended :
         /\ c.level >= params.Level => c.tried = {"stdout", "file"}
         /\ c.outcome = (CASE c.level = PanicLevel -> "panic"
                           [] c.level = FatalLevel -> "exit"
                           [] OTHER -> "return")
    /\ \A c \in Calls :
         /\ \A sink \in c.tried : sink \notin c.failed => Emitted(sink, c)
         /\ c.failed \subseteq c.tried
         /\ "stdout" \in c.failed => c.next > 1
    /\ pc # "killed"

\* C9 as stated: every structured line written carries "hostname" and "pid"
\* beside time, level and msg, for every PrettyLogging and EnableFileLogging.
C9_AsStated ==
  Built =>
    \A line \in Lines :
      line.kind = "json" =>
        {"time", "level", "msg", "hostname", "pid"} \subseteq Keys(line)

\* C9, amended: every structured line carries time, level and msg, and it
\* carries "hostname" and "pid" iff PrettyLogging is false: the file sink's
\* lines of a pretty logger carry neither.
C9_StructuredKeys ==
  Built =>
    \A line \in Lines :
      line.kind = "json" =>
        /\ {"time", "level", "msg"} \subseteq Keys(line)
        /\ ("hostname" \in Keys(line)) <=> ~params.PrettyLogging
        /\ ("pid" \in Keys(line)) <=> ~params.PrettyLogging

\* A pretty logger wrote a structured line to the file, without the base
\* fields.
C9_Witness ==
  /\ Built /\ params.PrettyLogging /\ params.EnableFileLogging
  /\ Len(file) >= 1
  /\ file[1].kind = "json"
  /\ "hostname" \notin Keys(file[1]) /\ "pid" \notin Keys(file[1])

\* C10: for an unknown name the level returned beside the error is -1, the
\* value returned for "DEBUG"; a logger built with it admits every severity
\* on every sink.
C10_FailureValueIsDebug ==
  /\ (pc = "parsed" /\ err # NoErr) => lvl = -1 /\ lvl = LevelOf[DEBUG]
  /\ (Built /\ errIgnored) =>
       /\ params.Level = LevelOf[DEBUG]
       /\ \A i \in 1..Len(logger.core), l \in RecordLevels : CoreEnabled(logger.core[i], l)
       /\ \A c \in Ended : c.tried = Outs(logger.core)

\* The error was ignored, and a DEBUG record went to both sinks.
C10_Witness ==
  /\ Built /\ errIgnored
  /\ \E c \in Ended :
       /\ c.level = DebugLevel
       /\ c.tried = {"stdout", "file"}
       /\ Emitted("stdout", c) /\ Emitted("file", c)

(***************************************************************************)
(* The structured encoder's EncodeTime.  An int64 is a sequence of limbs   *)
(* of LimbBits bits, lowest first, without leading zeros; a float64 is     *)
(* [m, e], the value m * 2^e with m an integer of at most 53 bits.         *)
(***************************************************************************)
\* The width of a limb, and its base 2^LimbBits.
LimbBits == 10

Base == 2^LimbBits

\* The limbs a without its leading zeros.
Trim(a) ==
  LET set == {i \in 1..Len(a) : a[i] # 0}
      top == IF set = {} THEN 0 ELSE CHOOSE i \in set : \A j \in set : j <= i
  IN SubSeq(a, 1, top)

Limb(a, i) == IF i >= 1 /\ i <= Len(a) THEN a[i] ELSE 0

\* The limbs of a natural below 2^31.
NatLimbs(x) ==
  Trim(<<x % Base, (x \div Base) % Base, (x \div (Base * Base)) % Base,
         x \div (Base * Base * Base)>>)

\* The natural that limbs stand for, when it is below 2^31.
LimbsNat(a) ==
  Limb(a, 1) + Base * (Limb(a, 2) + Base * (Limb(a, 3) + Base * Limb(a, 4)))

\* a + b, with the carry rippling up from the lowest limb.
BigAdd(a, b) ==
  LET n == (IF Len(a) > Len(b) THEN Len(a) ELSE Len(b)) + 1
      Carry[i \in 1..n] ==
        IF i = 1 THEN 0 ELSE (Limb(a, i - 1) + Limb(b, i - 1) + Carry[i - 1]) \div Base
  IN Trim([i \in 1..n |-> (Limb(a, i) + Limb(b, i) + Carry[i]) % Base])

\* a * s, for a natural s below 2^20.
BigMulSmall(a, s) ==
  LET n == Len(a) + 2
      Carry[i \in 1..n] ==
        IF i = 1 THEN 0 ELSE (Limb(a, i - 1) * s + Carry[i - 1]) \div Base
  IN Trim([i \in 1..n |-> (Limb(a, i) * s + Carry[i]) % Base])

\* a * m, for a natural m below 2^31: m is taken in two parts of 20 and 11 bits.
BigMulNat(a, m) ==
  LET low == BigMulSmall(a, m % (Base * Base))
      high == BigMulSmall(a, m \div (Base * Base))
  IN BigAdd(low, IF high = <<>> THEN high ELSE <<0, 0>> \o high)

\* Long division of a by the natural d (at most 2^20), from the highest limb
\* down: Rem[i] is the remainder of the highest i limbs.
BigDivMod(a, d) ==
  LET n == Len(a)
      Rem[i \in 0..n] == IF i = 0 THEN 0 ELSE (Rem[i - 1] * Base + a[n - i + 1]) % d
  IN [q |-> Trim([p \in 1..n |-> (Rem[n - p] * Base + a[p]) \div d]),
      r |-> Rem[n]]

\* The number of bits of a natural below Base, and of an int64.
LimbLen(x) == Cardinality({k \in 0..(LimbBits - 1) : 2^k <= x})

BitLen(a) == IF a = <<>> THEN 0 ELSE LimbBits * (Len(a) - 1) + LimbLen(a[Len(a)])

\* Bit i of a, the lowest being bit 1.
BitAt(a, i) ==
  IF i < 1 THEN 0
  ELSE (Limb(a, (i - 1) \div LimbBits + 1) \div 2^((i - 1) % LimbBits)) % 2

\* The int64 whose bit i is BitAt(a, i + k): a * 2^-k for k >= 0 (the low bits
\* dropped), a * 2^k for k < 0.
Shift(a, k) ==
  LET n == (BitLen(a) - k + LimbBits) \div LimbBits
      LimbAt(j) ==
        LET B(i) == BitAt(a, LimbBits * (j - 1) + i + k) * 2^(i - 1)
        IN B(1) + B(2) + B(3) + B(4) + B(5) + B(6) + B(7) + B(8) + B(9) + B(10)
  IN IF n <= 0 THEN <<>> ELSE Trim([j \in 1..n |-> LimbAt(j)])

Shr(a, k) == Shift(a, k)

Shl(a, k) == Shift(a, -k)

\* time.Millisecond, in nanoseconds
Millisecond == 1000000

\* time.Second, in nanoseconds
Second == 1000000000

\* The significand's width of a float64.
MantBits == 53

\* t.UnixNano(): sec*1e9 + nsec, as an int64.
UnixNano(tm) == BigAdd(BigMulNat(NatLimbs(tm.sec), Second), NatLimbs(tm.nsec))

\* m rounded up by one if up, renormalised to at most 53 bits.
RoundUp(m, e, up) ==
  LET m1 == IF up THEN BigAdd(m, <<1>>) ELSE m
  IN IF BitLen(m1) > MantBits THEN [m |-> Shr(m1, 1), e |-> e + 1] ELSE [m |-> m1, e |-> e]

\* float64(n) for an int64 n >= 0: exact up to 53 bits, beyond that rounded
\* to the nearest 53-bit value, ties to even.
Float64FromInt64(n) ==
  IF BitLen(n) <= MantBits THEN [m |-> n, e |-> 0]
  ELSE LET d == BitLen(n) - MantBits
           kept == Shr(n, d)
           half == BitAt(n, d) = 1
           sticky == \E i \in 1..(d - 1) : BitAt(n, i) = 1
       IN RoundUp(kept, d, half /\ (sticky \/ BitAt(kept, 1) = 1))

\* x / float64(d) in float64, for a natural d: the quotient's bits, 53 from
\* the highest one on, rounded to nearest, ties to even.  With f bits after
\* the binary point the quotient is Floor(x.m * 2^f / d); f is what makes it 53
\* bits long, one of two values the operands' lengths leave.
Float64Div(x, d) ==
  IF x.m = <<>> THEN x
  ELSE LET Quot(k) == BigDivMod(Shl(x.m, k), d)
           f0 == MantBits - BitLen(x.m) + BitLen(NatLimbs(d))
           f == IF BitLen(Quot(f0 - 1).q) = MantBits THEN f0 - 1 ELSE f0
           fr == Quot(f)
           half == 2 * fr.r >= d
           sticky == 2 * fr.r - (IF half THEN d ELSE 0) > 0
       IN RoundUp(fr.q, x.e - f, half /\ (sticky \/ BitAt(fr.q, 1) = 1))

\* math.Trunc: the bits after the binary point are dropped.
Trunc(x) == IF x.e >= 0 THEN x ELSE [m |-> Shr(x.m, -x.e), e |-> 0]

\* int64(x) for an integral float64 within range.
Int64(x) == Shl(x.m, x.e)

\* millis := int64(math.Trunc(float64(nanos) / float64(time.Millisecond)))
EncodeTime(tm) ==
  LET nanos == UnixNano(tm)
  IN Int64(Trunc(Float64Div(Float64FromInt64(nanos), Millisecond)))

\* An int64 count of milliseconds as seconds and milliseconds.
SecMs(b) == LET x == BigDivMod(b, 1000) IN [sec |-> LimbsNat(x.q), ms |-> x.r]

\* The times encoded: seconds since the epoch, and nanoseconds within the second.
Secs ==
  {0, 1, 1000, 9007199, 9007200, 18014398, 1000000000, 1699999999, 1700000000,
   1761955200, 2147483646}

Nsecs ==
  {0, 1, 255, 256, 499999, 999935, 999936, 999999, 1000000, 1999936, 123456789,
   254740992, 254740993, 500000000, 999000000, 999999000, 999999744, 999999872,
   999999936, 999999999}

InitTime ==
  /\ pc = "clock"
  /\ t \in [sec : Secs, nsec : Nsecs]
  /\ millis = Nil
  /\ logLevel = <<>>
  /\ lvl = InfoLevel
  /\ err = NoErr
  /\ errIgnored = FALSE
  /\ params = NoParams
  /\ hostnameOK = TRUE
  /\ fileOpenable = TRUE
  /\ logger = Nil
  /\ stdout = <<>>
  /\ file = <<>>
  /\ errorOutput = 0
  /\ calls = <<>>

\* The encoder is handed the entry's time and appends the integer.
AppendTime ==
  /\ pc = "clock"
  /\ millis' = SecMs(EncodeTime(t))
  /\ pc' = "encoded"
  /\ UNCHANGED <<logLevel, lvl, err, errIgnored, params, hostnameOK, fileOpenable,
                 logger, stdout, file, errorOutput, calls, t>>

NextTime == AppendTime

SpecTime == InitTime /\ [][NextTime]_vars

\* C8 as stated: for a time at or after the epoch the integer appended is the
\* integer quotient of the nanosecond timestamp by 1,000,000: the second
\* count times 1000 plus the whole milliseconds of the nanosecond part.
C8_AsStated ==
  pc = "encoded" =>
    millis = [sec |-> t.sec, ms |-> t.nsec \div Millisecond]

====
